---- MODULE Spec2Model ----
(***************************************************************************)
(* A model of match.js: patterns are compiled by match() into callable     *)
(* predicates; a predicate applied to a candidate returns false or the     *)
(* binding context j, which is one mutable object shared by the whole      *)
(* recursive descent of a single top-level call.                           *)
(*                                                                         *)
(* JavaScript values are tagged records: [num |-> 1], [str |-> "x"],       *)
(* [bool |-> TRUE], [arr |-> <<...>>], [undef |-> TRUE].  A function value *)
(* is a record with a field fn naming the closure's code and, when         *)
(* matchable() attached one, a field type.  Indices ci, xi, c, i are       *)
(* 0-based as in the source; sequences are indexed with +1.                *)
(***************************************************************************)
EXTENDS Integers, Sequences, FiniteSets, TLC

VARIABLES raw, pat, cand, res, j, log, cuts, ncalls, seen, sel

vars == <<raw, pat, cand, res, j, log, cuts, ncalls, seen, sel>>

-----------------------------------------------------------------------------
(* JavaScript values                                                       *)

Num(n) == [num |-> n]

Str(s) == [str |-> s]

Bool(b) == [bool |-> b]

Arr(a) == [arr |-> a]

Undefined == [undef |-> TRUE]

False == Bool(FALSE)

IsFunction(v) == "fn" \in DOMAIN v

IsArray(v) == "arr" \in DOMAIN v

TypeOf(v) ==
  IF "num" \in DOMAIN v THEN "number"
  ELSE IF "str" \in DOMAIN v THEN "string"
  ELSE IF "bool" \in DOMAIN v THEN "boolean"
  ELSE IF "undef" \in DOMAIN v THEN "undefined"
  ELSE IF IsFunction(v) THEN "function"
  ELSE "object"

\* x === object: primitives compare by value, objects by identity (a
\* candidate array is never the object a pattern was built with).
StrictEq(v, w) == TypeOf(v) \in {"number", "string", "boolean", "undefined"} /\ v = w

\* e.type, undefined when the property is absent (arrays, untyped values)
TypeTag(e) == IF IsFunction(e) /\ "type" \in DOMAIN e THEN e.type ELSE "undefined"

\* x.length of an array; of a function, its declared arity (x, j)
Length(e) == IF IsArray(e) THEN Len(e.arr) ELSE 2

MinOf(a, b) == IF a < b THEN a ELSE b

\* Array.prototype.slice(s, e) for non-negative s, e: both ends clamp to length
Slice(a, s, e) ==
  LET s1 == MinOf(s, Len(a))
      e1 == MinOf(e, Len(a))
  IN  IF e1 <= s1 THEN <<>> ELSE SubSeq(a, s1 + 1, e1)

-----------------------------------------------------------------------------
(* The binding context j                                                   *)

EmptyJ == [l \in {} |-> Undefined]

\* j[str] = x
Bind(jj, str, x) == [l \in (DOMAIN jj) \cup {str} |-> IF l = str THEN x ELSE jj[l]]

\* typeof(j) === 'undefined' => j = {}   (the shared object that a buggy
\* default would reuse is the context of the previous call)
matchableStale(jarg) == IF jarg = Undefined THEN j ELSE jarg

matchable(jarg) == IF jarg = Undefined THEN EmptyJ ELSE jarg

-----------------------------------------------------------------------------
(* Pattern constructors                                                    *)

\* the constructor functions themselves, passed uncalled
AnyCtor == [fn |-> "any()"]

NumberCtor == [fn |-> "number()"]

RepeatError == Str("repeat pattern error min/max")

any == [fn |-> "any", type |-> "any"]

is(object) == [fn |-> "is", type |-> "is", object |-> object]

number == [fn |-> "number", type |-> "number"]

string == [fn |-> "string", type |-> "string"]

boolean == [fn |-> "boolean", type |-> "boolean"]

\* the fixed run at the end of the list is not pushed
chunkifyNoFlush(list, pred) ==
  LET RECURSIVE loop(_, _, _)
      loop(i, fx, result) ==
        IF i >= Len(list)
        THEN result
        ELSE LET e == list[i + 1]
             IN  IF ~pred[i + 1]
                 THEN loop(i + 1, Append(fx, e), result)
                 ELSE loop(i + 1, <<>>,
                           Append(IF Len(fx) > 0 THEN Append(result, Arr(fx)) ELSE result, e))
  IN  loop(0, <<>>, <<>>)

\* pred is given by its values on the list: pred[i + 1] is pred(list[i])
chunkify(list, pred) ==
  LET RECURSIVE loop(_, _, _)
      loop(i, fx, result) ==
        IF i >= Len(list)
        THEN IF Len(fx) > 0 THEN Append(result, Arr(fx)) ELSE result
        ELSE LET e == list[i + 1]
             IN  IF ~pred[i + 1]
                 THEN loop(i + 1, Append(fx, e), result)
                 ELSE loop(i + 1, <<>>,
                           Append(IF Len(fx) > 0 THEN Append(result, Arr(fx)) ELSE result, e))
  IN  loop(0, <<>>, <<>>)

IsRepeatChunk(e) == TypeTag(e) = "greedy" \/ TypeTag(e) = "lazy"

RECURSIVE match(_)

RECURSIVE MapMatch(_)

\* ps.map(match)
MapMatch(ps) == [i \in 1..Len(ps) |-> match(ps[i])]

lst(ps) ==
  LET mps == MapMatch(ps)
  IN  [fn |-> "lst", type |-> "lst", ps |-> mps,
       chunks |-> chunkify(mps, [i \in 1..Len(mps) |-> IsRepeatChunk(mps[i])])]

\* an already compiled pattern is not recognised and is wrapped as a literal
matchRewrap(p) ==
  IF p = AnyCtor THEN any
  ELSE IF IsArray(p) THEN lst(p.arr)
  ELSE is(p)

match(p) ==
  IF p = AnyCtor THEN any
  ELSE IF IsFunction(p) THEN p
  ELSE IF IsArray(p) THEN lst(p.arr)
  ELSE is(p)

or(args) == [fn |-> "or", type |-> "or", args |-> MapMatch(args)]

\* the wrapper does not carry the inner pattern's type
nameUntyped(str, p) ==
  [fn |-> "name", binding |-> str, p |-> match(IF p = Undefined THEN any ELSE p)]

name(str, p) ==
  LET q == match(IF p = Undefined THEN any ELSE p)
      m == [fn |-> "name", binding |-> str, p |-> q]
  IN  IF TypeTag(q) = "undefined" THEN m ELSE m @@ ("type" :> q.type)

repeat(p, min, max) ==
  IF min = Undefined /\ max # Undefined
  THEN RepeatError
  ELSE [fn |-> "repeat", type |-> "repeat",
        p |-> match(IF p = Undefined THEN any ELSE p),
        min |-> IF min = Undefined THEN False ELSE min,
        max |-> IF min = Undefined THEN False ELSE max]

lazy(p, min, max) == [fn |-> "matchable", type |-> "lazy", p |-> repeat(p, min, max)]

greedy(p, min, max) == [fn |-> "matchable", type |-> "greedy", p |-> repeat(p, min, max)]

-----------------------------------------------------------------------------
(* Applying a predicate.  A call returns r: "j" (the context object, truthy),*)
(* "false", "fn" (a function object, truthy: an uncalled constructor was    *)
(* applied) or "throw" (TypeError: the callee is not a function), together  *)
(* with the state st = [j, log] it leaves behind.  log is a history of the  *)
(* submatch() entries and of or's calls of its alternatives.                *)

Truthy(r) == r \in {"j", "fn"}

Ret(r, st) == [r |-> r, st |-> st]

Logged(st, ev, a, b) == [st EXCEPT !.log = Append(@, [ev |-> ev, a |-> a, b |-> b])]

\* an entry of submatch(ci, xi), with chunks.length and x.length of its search
LoggedSearch(st, ci, xi, nchunks, len) ==
  [st EXCEPT !.log = Append(@, [ev |-> "submatch", a |-> ci, b |-> xi, n |-> nchunks, len |-> len])]

RECURSIVE Apply(_, _, _)

RECURSIVE orLoop(_, _, _, _)

RECURSIVE repeatLoop(_, _, _, _)

RECURSIVE submatch(_, _, _, _, _)

RECURSIVE greedyLoop(_, _, _, _, _, _)

RECURSIVE lazyLoop(_, _, _, _, _, _, _)

RECURSIVE fixedLoop(_, _, _, _, _)

RECURSIVE orLoopAll(_, _, _, _)

\* every alternative is called; the result is j if any of them matched
orLoopAll(args, i, x, st) ==
  IF i >= Len(args) THEN Ret("false", st)
  ELSE LET q == Apply(args[i + 1], x, Logged(st, "or", i, 0))
       IN  IF q.r = "throw" THEN q
           ELSE LET rest == orLoopAll(args, i + 1, x, q.st)
                IN  IF rest.r = "throw" THEN rest
                    ELSE Ret(IF Truthy(q.r) THEN "j" ELSE rest.r, rest.st)

\* or leaves a mark of its own in the context when an alternative matched
orLoopMarks(args, i, x, st) ==
  IF i >= Len(args) THEN Ret("false", st)
  ELSE LET q == Apply(args[i + 1], x, Logged(st, "or", i, 0))
       IN  IF q.r = "throw" THEN q
           ELSE IF Truthy(q.r) THEN Ret("j", [q.st EXCEPT !.j = Bind(@, "or", x)])
           ELSE orLoop(args, i + 1, x, q.st)

\* for(i = 0; i < args.length; i++) if(args[i](x, j)) return j;  return false
orLoop(args, i, x, st) ==
  IF i >= Len(args) THEN Ret("false", st)
  ELSE LET q == Apply(args[i + 1], x, Logged(st, "or", i, 0))
       IN  IF q.r = "throw" THEN q
           ELSE IF Truthy(q.r) THEN Ret("j", q.st)
           ELSE orLoop(args, i + 1, x, q.st)

\* for(i = 0; i < x.length; i++) if(!p(x[i], j)) return false;  return j
repeatLoop(p, xs, i, st) ==
  IF i >= Len(xs) THEN Ret("j", st)
  ELSE LET q == Apply(p, xs[i + 1], st)
       IN  IF q.r = "throw" THEN q
           ELSE IF ~Truthy(q.r) THEN Ret("false", q.st)
           ELSE repeatLoop(p, xs, i + 1, q.st)

\* a candidate that is not an array is an error instead of a failed match
repeatPredicateThrows(p, x, st) ==
  IF IsArray(x)
  THEN IF p.min # False /\ "num" \in DOMAIN p.min /\ Len(x.arr) < p.min.num
       THEN Ret("false", st)
       ELSE IF p.max # False /\ "num" \in DOMAIN p.max /\ Len(x.arr) > p.max.num
       THEN Ret("false", st)
       ELSE repeatLoop(p.p, x.arr, 0, st)
  ELSE Ret("throw", st)

\* the upper bound is not enforced
repeatPredicateNoMax(p, x, st) ==
  IF IsArray(x)
  THEN IF p.min # False /\ "num" \in DOMAIN p.min /\ Len(x.arr) < p.min.num
       THEN Ret("false", st)
       ELSE repeatLoop(p.p, x.arr, 0, st)
  ELSE Ret("false", st)

\* the body of repeat's predicate
repeatPredicate(p, x, st) ==
  IF IsArray(x)
  THEN IF p.min # False /\ "num" \in DOMAIN p.min /\ Len(x.arr) < p.min.num
       THEN Ret("false", st)
       ELSE IF p.max # False /\ "num" \in DOMAIN p.max /\ Len(x.arr) > p.max.num
       THEN Ret("false", st)
       ELSE repeatLoop(p.p, x.arr, 0, st)
  ELSE Ret("false", st)

\* one element is always held back for the chunks that follow
greedyFixlengthReserve(chunks, ci) == 1

\* fixlength of the greedy branch: the loop over c = ci+1 .. chunks.length-1
\* tests chunks[ci] and adds chunks[ci+1].length
greedyFixlength(chunks, ci) ==
  LET RECURSIVE loop(_, _)
      loop(c, fixlength) ==
        IF c >= Len(chunks) THEN fixlength
        ELSE IF TypeTag(chunks[ci + 1]) # "greedy" /\ TypeTag(chunks[ci + 1]) # "lazy"
                /\ Length(chunks[ci + 2]) # 0
             THEN loop(c + 1, fixlength + Length(chunks[ci + 2]))
             ELSE loop(c + 1, fixlength)
  IN  loop(ci + 1, 0)

\* no backtracking: only the first length the predicate accepts is tried
greedyLoopOnce(chunks, xs, ci, xi, replength, st) ==
  IF replength < 0 THEN [r |-> "false", st |-> st, cuts |-> <<>>]
  ELSE LET q == Apply(chunks[ci + 1], Arr(Slice(xs, xi, xi + replength)), st)
       IN  IF q.r = "throw" THEN [r |-> "throw", st |-> q.st, cuts |-> <<>>]
           ELSE IF ~Truthy(q.r) THEN greedyLoop(chunks, xs, ci, xi, replength - 1, q.st)
           ELSE LET s == submatch(chunks, xs, ci + 1, xi + replength, q.st)
                IN  IF s.r = "throw" THEN s
                    ELSE IF Truthy(s.r)
                    THEN [r |-> "j", st |-> s.st, cuts |-> <<replength>> \o s.cuts]
                    ELSE [r |-> "false", st |-> s.st, cuts |-> <<>>]

\* for(replength = ...; replength >= 0; replength--)
greedyLoop(chunks, xs, ci, xi, replength, st) ==
  IF replength < 0 THEN [r |-> "false", st |-> st, cuts |-> <<>>]
  ELSE LET q == Apply(chunks[ci + 1], Arr(Slice(xs, xi, xi + replength)), st)
       IN  IF q.r = "throw" THEN [r |-> "throw", st |-> q.st, cuts |-> <<>>]
           ELSE IF ~Truthy(q.r) THEN greedyLoop(chunks, xs, ci, xi, replength - 1, q.st)
           ELSE LET s == submatch(chunks, xs, ci + 1, xi + replength, q.st)
                IN  IF s.r = "throw" THEN s
                    ELSE IF Truthy(s.r)
                    THEN [r |-> "j", st |-> s.st, cuts |-> <<replength>> \o s.cuts]
                    ELSE greedyLoop(chunks, xs, ci, xi, replength - 1, s.st)

\* a length greater than 0 is taken one step at a time by searching on
\* from the same chunk
lazyLoopSameChunk(chunks, xs, ci, xi, replength, fixlength, st) ==
  IF replength > fixlength THEN [r |-> "false", st |-> st, cuts |-> <<>>]
  ELSE LET q == Apply(chunks[ci + 1], Arr(Slice(xs, xi, xi + replength)), st)
           cn == IF replength > 0 /\ xi + replength <= Len(xs) THEN ci ELSE ci + 1
       IN  IF q.r = "throw" THEN [r |-> "throw", st |-> q.st, cuts |-> <<>>]
           ELSE IF ~Truthy(q.r) THEN lazyLoop(chunks, xs, ci, xi, replength + 1, fixlength, q.st)
           ELSE LET s == submatch(chunks, xs, cn, xi + replength, q.st)
                IN  IF s.r = "throw" THEN s
                    ELSE IF Truthy(s.r)
                    THEN [r |-> "j", st |-> s.st, cuts |-> <<replength>> \o s.cuts]
                    ELSE lazyLoop(chunks, xs, ci, xi, replength + 1, fixlength, s.st)

\* for(replength = 0; replength <= fixlength; replength++)
lazyLoop(chunks, xs, ci, xi, replength, fixlength, st) ==
  IF replength > fixlength THEN [r |-> "false", st |-> st, cuts |-> <<>>]
  ELSE LET q == Apply(chunks[ci + 1], Arr(Slice(xs, xi, xi + replength)), st)
       IN  IF q.r = "throw" THEN [r |-> "throw", st |-> q.st, cuts |-> <<>>]
           ELSE IF ~Truthy(q.r) THEN lazyLoop(chunks, xs, ci, xi, replength + 1, fixlength, q.st)
           ELSE LET s == submatch(chunks, xs, ci + 1, xi + replength, q.st)
                IN  IF s.r = "throw" THEN s
                    ELSE IF Truthy(s.r)
                    THEN [r |-> "j", st |-> s.st, cuts |-> <<replength>> \o s.cuts]
                    ELSE lazyLoop(chunks, xs, ci, xi, replength + 1, fixlength, s.st)

\* chunk[c](x[c+xi]): the element patterns are called without j, so each
\* starts from a context of its own
fixedLoopFreshJ(chunk, xs, xi, c, st) ==
  IF c >= Len(chunk) THEN Ret("j", st)
  ELSE LET q == Apply(chunk[c + 1], xs[c + xi + 1], [st EXCEPT !.j = matchable(Undefined)])
       IN  IF q.r = "throw" THEN q
           ELSE IF ~Truthy(q.r) THEN Ret("false", [q.st EXCEPT !.j = st.j])
           ELSE fixedLoop(chunk, xs, xi, c + 1, [q.st EXCEPT !.j = st.j])

\* only the first element of the chunk is tested
fixedLoopFirstOnly(chunk, xs, xi, c, st) ==
  IF c >= 1 THEN Ret("j", st)
  ELSE LET q == Apply(chunk[c + 1], xs[c + xi + 1], st)
       IN  IF q.r = "throw" THEN q
           ELSE IF ~Truthy(q.r) THEN Ret("false", q.st)
           ELSE fixedLoop(chunk, xs, xi, c + 1, q.st)

\* for(c = 0; c < chunk.length; c++) if(!chunk[c](x[c+xi], j)) return false
fixedLoop(chunk, xs, xi, c, st) ==
  IF c >= Len(chunk) THEN Ret("j", st)
  ELSE LET q == Apply(chunk[c + 1], xs[c + xi + 1], st)
       IN  IF q.r = "throw" THEN q
           ELSE IF ~Truthy(q.r) THEN Ret("false", q.st)
           ELSE fixedLoop(chunk, xs, xi, c + 1, q.st)

\* one element short: the whole remainder is never tried
greedyStartShort(chunks, xs, ci, xi) == Len(xs) - xi - greedyFixlength(chunks, ci) - 1

\* the start value of replength in the greedy branch
greedyStart(chunks, xs, ci, xi) == Len(xs) - xi - greedyFixlength(chunks, ci)

\* the zeroth replength is skipped
lazyStartOne(xs, xi) == 1

\* the first replength the lazy branch tries
lazyStart(xs, xi) == 0

\* the upper limit of replength in the lazy branch
lazyFixlength(xs, xi) == Len(xs)

\* success as soon as the chunks are used up, whatever data is left
terminalSuccessAnyData(chunks, xs, ci, xi) == ci >= Len(chunks)

\* ci >= chunks.length && xi >= x.length
terminalSuccess(chunks, xs, ci, xi) == ci >= Len(chunks) /\ xi >= Len(xs)

\* the log also records the return of every entry that returns
submatch(chunks, xs, ci, xi, st0) ==
  LET st == LoggedSearch(st0, ci, xi, Len(chunks), Len(xs))
      out ==
        IF terminalSuccess(chunks, xs, ci, xi)
        THEN [r |-> "j", st |-> st, cuts |-> <<>>]
        ELSE IF ci >= Len(chunks)
        THEN [r |-> "false", st |-> st, cuts |-> <<>>]
        ELSE LET chunk == chunks[ci + 1]
             IN  IF TypeTag(chunk) = "greedy"
                 THEN greedyLoop(chunks, xs, ci, xi, greedyStart(chunks, xs, ci, xi), st)
                 ELSE IF TypeTag(chunk) = "lazy"
                 THEN lazyLoop(chunks, xs, ci, xi, lazyStart(xs, xi), lazyFixlength(xs, xi), st)
                 ELSE LET chunklen == Length(chunk)
                          datalen  == Len(xs) - xi
                      IN  IF chunklen > datalen
                          THEN [r |-> "false", st |-> st, cuts |-> <<>>]
                          ELSE LET f == fixedLoop(chunk.arr, xs, xi, 0, st)
                               IN  IF f.r # "j"
                                   THEN [r |-> f.r, st |-> f.st, cuts |-> <<>>]
                                   ELSE LET s == submatch(chunks, xs, ci + 1, xi + chunklen, f.st)
                                        IN  IF Truthy(s.r)
                                            THEN [s EXCEPT !.cuts = <<chunklen>> \o @]
                                            ELSE s
  IN  IF out.r = "throw" THEN out ELSE [out EXCEPT !.st = Logged(@, "return", ci, xi)]

\* j[str] = x after the inner pattern accepted
nameBind(jj, str, x) == Bind(jj, str, x)

Apply(p, x, st) ==
  IF ~IsFunction(p) THEN Ret("throw", st)
  ELSE IF p.fn = "any" THEN Ret("j", st)
  ELSE IF p.fn = "is" THEN Ret(IF StrictEq(x, p.object) THEN "j" ELSE "false", st)
  ELSE IF p.fn \in {"number", "string", "boolean"}
       THEN Ret(IF TypeOf(x) = p.fn THEN "j" ELSE "false", st)
  ELSE IF p.fn = "or" THEN orLoop(p.args, 0, x, st)
  ELSE IF p.fn = "name"
       THEN LET q == Apply(p.p, x, st)
            IN  IF q.r = "throw" THEN q
                ELSE IF Truthy(q.r)
                THEN Ret("j", [q.st EXCEPT !.j = nameBind(@, p.binding, x)])
                ELSE Ret("false", q.st)
  ELSE IF p.fn = "repeat" THEN repeatPredicate(p, x, st)
  ELSE IF p.fn = "matchable" THEN Apply(p.p, x, st)
  ELSE IF p.fn = "lst"
       THEN IF IsArray(x)
            THEN LET s == submatch(p.chunks, x.arr, 0, 0, st)
                 IN  Ret(s.r, [s.st EXCEPT !.cuts = s.cuts])
            ELSE Ret("false", st)
  ELSE Ret("fn", st)

\* a top-level call pattern(candidate): j is not passed
Call(p, x) == Apply(p, x, [j |-> matchable(Undefined), log |-> <<>>, cuts |-> <<>>])

-----------------------------------------------------------------------------
(* select(x, clauses, fallback).  A handler is an opaque function: the     *)
(* value it returns records which handler it was and what it was given.    *)
(* The trace lists the clause patterns evaluated and the functions invoked.*)

Handler(k) == [handler |-> k]

Invoke(h, arg) == [by |-> h.handler, arg |-> arg]

Traced(trace, ev, i) == Append(trace, [ev |-> ev, i |-> i])

RECURSIVE selectLoop(_, _, _, _)

\* after a match the loop goes on: later matching clauses run their handlers
\* too and the last result is returned
selectLoopFallThrough(x, clauses, i, trace) ==
  IF i >= Len(clauses) THEN [r |-> "none", v |-> False, trace |-> trace]
  ELSE LET m == Call(clauses[i + 1], x)
           func == clauses[i + 2]
           tr == Traced(trace, "match", i)
       IN  IF m.r = "throw" THEN [r |-> "throw", v |-> Str("TypeError"), trace |-> tr]
           ELSE IF Truthy(m.r)
           THEN LET rest == selectLoop(x, clauses, i + 2, Traced(tr, "func", i + 1))
                IN  IF rest.r = "none"
                    THEN [r |-> "return", v |-> Invoke(func, m.st.j), trace |-> rest.trace]
                    ELSE rest
           ELSE selectLoop(x, clauses, i + 2, tr)

\* for(i = 0; i < clauses.length; i += 2) { m = match(x); if(m) return func(m) }
selectLoop(x, clauses, i, trace) ==
  IF i >= Len(clauses) THEN [r |-> "none", v |-> False, trace |-> trace]
  ELSE LET m == Call(clauses[i + 1], x)
           func == clauses[i + 2]
           tr == Traced(trace, "match", i)
       IN  IF m.r = "throw" THEN [r |-> "throw", v |-> Str("TypeError"), trace |-> tr]
           ELSE IF Truthy(m.r)
           THEN [r |-> "return", v |-> Invoke(func, m.st.j), trace |-> Traced(tr, "func", i + 1)]
           ELSE selectLoop(x, clauses, i + 2, tr)

ClausesError == Str("number of clauses is not even")

\* return fallback ? fallback(x) : false
selectFallback(x, fallback, trace) ==
  IF fallback # Undefined
  THEN [r |-> "return", v |-> Invoke(fallback, x), trace |-> Traced(trace, "fallback", 0)]
  ELSE [r |-> "return", v |-> False, trace |-> trace]

\* the parity of the clause list is tested only when no clause matched
selectLateCheck(x, clauses, fallback) ==
  LET q == selectLoop(x, SubSeq(clauses, 1, Len(clauses) - (Len(clauses) % 2)), 0, <<>>)
  IN  IF q.r # "none" THEN q
      ELSE IF Len(clauses) % 2 # 0
      THEN [r |-> "throw", v |-> ClausesError, trace |-> q.trace]
      ELSE selectFallback(x, fallback, q.trace)

select(x, clauses, fallback) ==
  IF Len(clauses) % 2 # 0
  THEN [r |-> "throw", v |-> ClausesError, trace |-> <<>>]
  ELSE LET q == selectLoop(x, clauses, 0, <<>>)
       IN  IF q.r # "none" THEN q ELSE selectFallback(x, fallback, q.trace)

-----------------------------------------------------------------------------
(* Bounds and the inputs drawn from them                                   *)

MaxLen == 3

MaxPs == 3

MaxCalls == 2

MaxClauses == 4

SeqsUpTo(S, n) == UNION {[1..k -> S] : k \in 0..n}

U == Undefined

Scalars == {Num(1), Num(2), Str("x")}

ArrayElems == {Num(1), Num(2)}

\* the elements sequence patterns are generated from: a literal and named
\* greedy/lazy repetitions
SeqElems ==
  { Num(1),
    name("A", greedy(U, U, U)), name("B", greedy(Num(2), U, U)),
    name("A", lazy(U, U, U)) }

SeqPatterns == {Arr(ps) : ps \in SeqsUpTo(SeqElems, MaxPs)}

\* sequence patterns of the test suite and of the header documentation, and
\* sequences with alternation, type checks, nesting and names inside
\* repetitions
CuratedSeqPatterns ==
  { Arr(<<greedy(U, U, U), Num(1), Num(2)>>),
    Arr(<<greedy(U, U, U), Num(1)>>), Arr(<<greedy(U, U, U)>>),
    Arr(<<greedy(Arr(<<Num(1), name("A", U)>>), U, U)>>),
    Arr(<<Arr(<<Arr(<<name("A", U)>>), name("B", lazy(U, U, U))>>)>>),
    Arr(<<Str("x")>>), Arr(<<Num(1), Num(2)>>), Arr(<<name("A", Str("x"))>>),
    Arr(<<number, string>>), Arr(<<Num(1), AnyCtor, Num(2)>>), Arr(<<Num(1), Arr(<<Num(2)>>)>>),
    Arr(<<Num(1), name("A", greedy(U, U, U)), Num(2)>>),
    Arr(<<name("A", greedy(U, U, U)), Num(2), name("B", greedy(U, U, U))>>),
    Arr(<<Num(1), name("A", greedy(AnyCtor, Num(1), Num(2))), Num(2),
          name("B", greedy(AnyCtor, Num(1), Num(2)))>>),
    Arr(<<Num(1), Arr(<<Num(2), name("A", greedy(U, U, U))>>)>>),
    Arr(<<Num(1), Arr(<<Num(2), name("A", lazy(U, U, U)), greedy(Num(3), U, U)>>)>>),
    Arr(<<or(<<Num(1), Num(2)>>), greedy(number, U, U)>>),
    Arr(<<number, lazy(or(<<name("A", Num(1)), name("B", AnyCtor)>>), U, U), string>>),
    Arr(<<string, name("A", greedy(or(<<Str("x"), Num(2)>>), Num(2), Num(3)))>>),
    Arr(<<name("A", U), lazy(U, U, U), name("B", Num(2))>>),
    Arr(<<lazy(AnyCtor, Num(1), Num(2)), name("A", greedy(U, U, U)), Num(2)>>),
    Arr(<<name("A", lazy(U, U, U)), lazy(AnyCtor, Num(1), Num(2)), name("B", greedy(Num(2), U, U))>>),
    Arr(<<lazy(Num(1), U, U), name("A", U), Num(2), name("B", lazy(U, U, U))>>),
    Arr(<<greedy(name("B", U), U, U), Num(2), Num(2)>>),
    Arr(<<name("B", U), greedy(name("B", U), U, U), Num(2), Num(2)>>),
    Arr(<<name("A", Num(1)),
          or(<<Arr(<<name("A", Num(2)), Num(9)>>), Arr(<<Num(2), Num(3)>>)>>)>>),
    Arr(<<lazy(name("A", number), U, U), lazy(name("B", U), Num(0), Num(1)), greedy(string, U, U)>>) }

\* patterns that are not sequences: the wildcard marker uncalled and
\* called, literals, type checks and named scalars
TopPatterns ==
  { AnyCtor, any, Num(1), Str("x"), is(Num(2)), number, name("A", Num(1)), name("A", U) }

\* the alternatives or-patterns are generated from (none contains an or)
OrAlts ==
  { name("A", Num(1)), name("B", AnyCtor), Arr(<<name("A", U), Num(2)>>) }

OrPatterns == {or(a) : a \in SeqsUpTo(OrAlts, MaxPs)}

BoundPairs == { <<U, U>>, <<Num(0), Num(1)>>, <<Num(1), Num(2)>>, <<Num(2), Num(2)>> }

RepeatInner == { U, Str("x"), AnyCtor, number }

\* repeat, greedy and lazy with both bounds or neither
RepeatPatterns ==
  UNION { { repeat(p, b[1], b[2]), greedy(p, b[1], b[2]), lazy(p, b[1], b[2]) }
          : <<p, b>> \in RepeatInner \X BoundPairs }

\* exactly one of min and max given
MalformedPairs == { <<Num(1), U>>, <<U, Num(1)>> }

MalformedRepeats ==
  UNION { { repeat(p, b[1], b[2]), greedy(p, b[1], b[2]), lazy(p, b[1], b[2]) }
          : <<p, b>> \in {U} \X MalformedPairs }

MalformedPatterns ==
  MalformedRepeats
    \cup { Arr(<<m>>) : m \in MalformedRepeats }
    \cup { name("A", m) : m \in MalformedRepeats }

WellFormedPatterns ==
  SeqPatterns \cup CuratedSeqPatterns \cup TopPatterns \cup OrPatterns \cup RepeatPatterns

\* the date pattern of the documentation: number is passed uncalled
DatePattern ==
  Arr(<<name("year", greedy(NumberCtor, Num(4), Num(4))), Str("-"),
        name("month", greedy(NumberCtor, Num(2), Num(2)))>>)

DocPatterns == { DatePattern }

RawPatterns == WellFormedPatterns \cup MalformedPatterns \cup DocPatterns

FlatArrays == {Arr(a) : a \in SeqsUpTo(ArrayElems, MaxLen)}

CuratedCandidates ==
  { Arr(<<Num(1), Num(2), Num(3)>>), Arr(<<Num(1), Num(3)>>),
    Arr(<<Num(1), Arr(<<Num(2), Num(3)>>)>>), Arr(<<Num(1), Arr(<<Num(2)>>)>>),
    Arr(<<Num(1), Num(1), Num(2), Num(2)>>), Arr(<<Num(1), Num(2), Num(2), Num(2)>>),
    Arr(<<Str("x")>>), Arr(<<Str("x"), Str("x")>>), Arr(<<Str("x"), Str("x"), Str("x")>>),
    Arr(<<Num(1), Str("x")>>), Arr(<<Str("x"), Num(2)>>), Arr(<<Str("x"), Num(2), Num(2)>>),
    Arr(<<Num(1), Num(2), Str("x")>>),
    Arr(<<Arr(<<Num(1), Num(2)>>), Arr(<<Num(1), Num(1)>>)>>),
    Arr(<<Arr(<<Arr(<<Num(2)>>), Num(1)>>)>>),
    Arr(<<Num(2), Num(1), Num(2), Num(1), Str("-"), Num(1), Num(2)>>),
    Arr(<<Num(2), Str("x"), Num(2), Num(1), Str("-"), Num(1), Num(2)>>),
    Arr(<<Num(2), Num(1), Num(2), Num(1), Str("-"), Num(1), Str("x")>>),
    Arr(<<Num(2), Num(1), Num(2), Str("-"), Num(1), Num(2)>>),
    Num(3), Bool(TRUE), RepeatError }

Candidates == FlatArrays \cup Scalars \cup CuratedCandidates

\* the patterns and candidates of repeated calls of one compiled pattern
ReusePatterns ==
  {Arr(<<a, b>>) : <<a, b>> \in SeqElems \X SeqElems}
    \cup {or(<<a, b>>) : <<a, b>> \in OrAlts \X OrAlts}
    \cup CuratedSeqPatterns

ReuseCandidates ==
  {Arr(<<a, b>>) : <<a, b>> \in ArrayElems \X ArrayElems}
    \cup {Arr(<<a>>) : a \in ArrayElems}
    \cup Scalars
    \cup { Arr(<<>>), Arr(<<Num(1), Num(2), Num(2)>>), Arr(<<Num(1), Arr(<<Num(2), Num(3)>>)>>),
           Arr(<<Str("x"), Num(2), Num(2)>>) }

\* the clause patterns, compiled, and the handlers of select
SelectPatterns ==
  { match(Num(1)), match(Num(2)), match(Arr(<<name("A", greedy(U, U, U)), Num(2)>>)),
    name("B", number) }

Handlers == { Handler("h1"), Handler("h2") }

Fallbacks == { Undefined, Handler("fallback") }

SelectCandidates == { Num(1), Num(2), Str("x"), Arr(<<Num(1), Num(2)>>), Arr(<<Num(1)>>) }

\* [match, function, match, function, ...], also cut off after a pattern
ClauseLists ==
  { cl \in SeqsUpTo(SelectPatterns \cup Handlers, MaxClauses) :
      \A i \in 1..Len(cl) :
        IF i % 2 = 1 THEN cl[i] \in SelectPatterns ELSE cl[i] \in Handlers }

-----------------------------------------------------------------------------
(* The state machine: compile a pattern once, then call it                 *)

NotCompiled == [undef |-> TRUE]

NoSelect == [undef |-> TRUE]

Init ==
  /\ raw = Undefined
  /\ pat = NotCompiled
  /\ cand = Undefined
  /\ res = "none"
  /\ j = EmptyJ
  /\ log = <<>>
  /\ cuts = <<>>
  /\ ncalls = 0
  /\ seen = {}
  /\ sel = NoSelect

\* pattern = match(raw)
Compile(r) ==
  /\ pat = NotCompiled
  /\ raw' = r
  /\ pat' = match(r)
  /\ UNCHANGED <<cand, res, j, log, cuts, ncalls, seen, sel>>

\* the effect of pattern(x) on the state
DoCall(x) ==
  LET q == Call(pat, x)
  IN  /\ cand' = x
      /\ res' = q.r
      /\ j' = q.st.j
      /\ log' = q.st.log
      /\ cuts' = q.st.cuts
      /\ ncalls' = ncalls + 1
      /\ seen' = seen \cup DOMAIN j
      /\ UNCHANGED <<raw, pat, sel>>

\* the first call of a freshly compiled pattern
CallFirst(x) ==
  /\ pat # NotCompiled
  /\ ncalls = 0
  /\ DoCall(x)

\* a later call of the same compiled pattern
CallAgain(x) ==
  /\ pat # NotCompiled
  /\ ncalls > 0
  /\ ncalls < MaxCalls
  /\ DoCall(x)

Next ==
  \/ \E r \in RawPatterns : Compile(r)
  \/ \E x \in Candidates : CallFirst(x)

Spec == Init /\ [][Next]_vars

\* one compiled pattern called several times
NextReuse ==
  \/ \E r \in ReusePatterns : Compile(r)
  \/ \E x \in ReuseCandidates : CallFirst(x)
  \/ \E x \in ReuseCandidates : CallAgain(x)

SpecReuse == Init /\ [][NextReuse]_vars

\* select(x, clauses, fallback): the arguments and the outcome
Select(x, clauses, fallback) ==
  /\ sel = NoSelect
  /\ sel' = [x |-> x, clauses |-> clauses, fallback |-> fallback] @@ select(x, clauses, fallback)
  /\ UNCHANGED <<raw, pat, cand, res, j, log, cuts, ncalls, seen>>

NextSelect ==
  \E x \in SelectCandidates, clauses \in ClauseLists, fallback \in Fallbacks :
    Select(x, clauses, fallback)

SpecSelect == Init /\ [][NextSelect]_vars

-----------------------------------------------------------------------------
(* Properties                                                              *)

\* p accepts v when called at top level
Accepts(p, v) == Truthy(Call(p, v).r)

\* a segment is accepted by a chunk: a fixed chunk takes exactly as many
\* elements as it has patterns, each accepted by the pattern at its position;
\* a repetition chunk takes a segment its predicate accepts
SegmentOK(chunk, seg) ==
  IF IsArray(chunk)
  THEN /\ Len(seg) = Len(chunk.arr)
       /\ \A c \in 1..Len(seg) : Accepts(chunk.arr[c], seg[c])
  ELSE Accepts(chunk, Arr(seg))

RECURSIVE Decomposes(_, _, _, _)

\* xs from xi on can be cut into consecutive segments, one per chunk from ci on
Decomposes(chunks, xs, ci, xi) ==
  IF ci >= Len(chunks) THEN xi = Len(xs)
  ELSE \E r \in 0..(Len(xs) - xi) :
         /\ SegmentOK(chunks[ci + 1], SubSeq(xs, xi + 1, xi + r))
         /\ Decomposes(chunks, xs, ci + 1, xi + r)

RECURSIVE SumTo(_, _)

SumTo(s, n) == IF n <= 0 THEN 0 ELSE s[n] + SumTo(s, n - 1)

IsSeqCall == raw \in SeqPatterns \cup CuratedSeqPatterns /\ res # "none" /\ IsArray(cand)

SubmatchEntries == Cardinality({i \in 1..Len(log) : log[i].ev = "submatch"})

\* C1: a sequence pattern matches an array iff the array can be cut into
\* consecutive segments, one per chunk in order, covering it exactly, each
\* segment accepted by its chunk; nothing is left over and no decomposition
\* is missed.
C1_MatchIffDecomposition ==
  IsSeqCall =>
    /\ res \in {"j", "false"}
    /\ (res = "j") <=> Decomposes(pat.chunks, cand.arr, 0, 0)

\* a successful match of three or more chunks in which the search backtracked
C1_Witness ==
  /\ IsSeqCall
  /\ res = "j"
  /\ Len(pat.chunks) >= 3
  /\ Len(cand.arr) >= 2
  /\ SubmatchEntries > Len(pat.chunks) + 1

\* the slice of length r at xi is accepted by chunk ci and the rest matches
Feasible(chunks, xs, ci, xi, r) ==
  /\ Accepts(chunks[ci + 1], Arr(SubSeq(xs, xi + 1, xi + r)))
  /\ Decomposes(chunks, xs, ci + 1, xi + r)

\* on the successful path, chunk ci (of the given type) consumed an extreme
\* feasible length: greater lengths (up = TRUE) or smaller ones are infeasible
ExtremeLength(type, up) ==
  \A ci \in 0..(Len(pat.chunks) - 1) :
    TypeTag(pat.chunks[ci + 1]) = type =>
      LET xi == SumTo(cuts, ci)
          R  == Len(cand.arr) - xi
          r  == cuts[ci + 1]
      IN  /\ r \in 0..R
          /\ Feasible(pat.chunks, cand.arr, ci, xi, r)
          /\ \A r2 \in 0..R :
               (IF up THEN r2 > r ELSE r2 < r) => ~Feasible(pat.chunks, cand.arr, ci, xi, r2)

GreedyThenGreedy2 == Arr(<<name("A", greedy(U, U, U)), name("B", greedy(Num(2), U, U))>>)

LazyThenGreedy2 == Arr(<<name("A", lazy(U, U, U)), name("B", greedy(Num(2), U, U))>>)

AB(a, b) == [l \in {"A", "B"} |-> IF l = "A" THEN Arr(a) ELSE Arr(b)]

\* C2: on success a greedy chunk reached at xi has consumed the largest
\* length r in 0..R whose slice its predicate accepts and after which the
\* remaining chunks match; [name('A', greedy()), name('B', greedy(2))] binds
\* A to the whole array and B to [] for every array.
C2_GreedyLargest ==
  /\ (IsSeqCall /\ res = "j") => ExtremeLength("greedy", TRUE)
  /\ (raw = GreedyThenGreedy2 /\ res # "none" /\ IsArray(cand)) =>
       (res = "j" /\ j = AB(cand.arr, <<>>))

\* a greedy chunk that had to give elements back
C2_Witness ==
  /\ IsSeqCall
  /\ res = "j"
  /\ \E ci \in 0..(Len(pat.chunks) - 1) :
       /\ TypeTag(pat.chunks[ci + 1]) = "greedy"
       /\ cuts[ci + 1] > 0
       /\ cuts[ci + 1] < Len(cand.arr) - SumTo(cuts, ci)

\* C3: on success a lazy chunk reached at xi has consumed the smallest
\* length r in 0..R whose slice its predicate accepts and after which the
\* remaining chunks match; the lazy-vs-greedy examples of the test suite.
C3_LazySmallest ==
  /\ (IsSeqCall /\ res = "j") => ExtremeLength("lazy", FALSE)
  /\ (raw = LazyThenGreedy2 /\ cand = Arr(<<Num(1), Num(2)>>)) =>
       (res = "j" /\ j = AB(<<Num(1)>>, <<Num(2)>>))
  /\ (raw = LazyThenGreedy2 /\ cand = Arr(<<Num(1), Num(2), Num(2)>>)) =>
       (res = "j" /\ j = AB(<<Num(1)>>, <<Num(2), Num(2)>>))
  /\ (raw = LazyThenGreedy2 /\ cand = Arr(<<Num(1), Num(2), Num(3)>>)) =>
       (res = "j" /\ j = AB(<<Num(1), Num(2), Num(3)>>, <<>>))
  /\ (raw = GreedyThenGreedy2 /\ cand = Arr(<<Num(1), Num(2)>>)) =>
       (res = "j" /\ j = AB(<<Num(1), Num(2)>>, <<>>))

\* a lazy chunk that had to take elements
C3_Witness ==
  /\ IsSeqCall
  /\ res = "j"
  /\ \E ci \in 0..(Len(pat.chunks) - 1) :
       /\ TypeTag(pat.chunks[ci + 1]) = "lazy"
       /\ cuts[ci + 1] > 0
       /\ cuts[ci + 1] < Len(cand.arr) - SumTo(cuts, ci)

-----------------------------------------------------------------------------
(* The successful path of a match: the same search, with the bindings of   *)
(* a branch kept only if the branch succeeds.  Results are [ok, j].        *)

RECURSIVE PathApply(_, _, _)

RECURSIVE PathOr(_, _, _, _)

RECURSIVE PathAll(_, _, _, _, _)

RECURSIVE PathSub(_, _, _, _, _)

PathFail(jj) == [ok |-> FALSE, j |-> jj]

\* the first alternative that matches, with its bindings
PathOr(args, i, x, jj) ==
  IF i > Len(args) THEN PathFail(jj)
  ELSE LET q == PathApply(args[i], x, jj)
       IN  IF q.ok THEN q ELSE PathOr(args, i + 1, x, jj)

\* ps[k] matches xs[off + k] for k = i..Len(ps), bindings threaded left to
\* right; same is TRUE when one pattern is applied to every element
PathAll(ps, xs, off, i, jj) ==
  IF i > Len(ps) THEN [ok |-> TRUE, j |-> jj]
  ELSE LET q == PathApply(ps[i], xs[off + i], jj)
       IN  IF ~q.ok THEN PathFail(jj)
           ELSE LET rest == PathAll(ps, xs, off, i + 1, q.j)
                IN  IF rest.ok THEN rest ELSE PathFail(jj)

\* chunk ci takes the slice of length r at xi and the rest matches after it
PathTake(chunks, xs, ci, xi, r, jj) ==
  LET q == PathApply(chunks[ci + 1], Arr(SubSeq(xs, xi + 1, xi + r)), jj)
  IN  IF ~q.ok THEN PathFail(jj)
      ELSE LET rest == PathSub(chunks, xs, ci + 1, xi + r, q.j)
           IN  IF rest.ok THEN rest ELSE PathFail(jj)

PathSub(chunks, xs, ci, xi, jj) ==
  IF ci >= Len(chunks) THEN [ok |-> xi = Len(xs), j |-> jj]
  ELSE LET chunk == chunks[ci + 1]
           R == Len(xs) - xi
       IN  IF IsArray(chunk)
           THEN IF Len(chunk.arr) > R THEN PathFail(jj)
                ELSE LET f == PathAll(chunk.arr, xs, xi, 1, jj)
                     IN  IF ~f.ok THEN PathFail(jj)
                         ELSE LET rest == PathSub(chunks, xs, ci + 1, xi + Len(chunk.arr), f.j)
                              IN  IF rest.ok THEN rest ELSE PathFail(jj)
           ELSE LET ok == {r \in 0..R : PathTake(chunks, xs, ci, xi, r, jj).ok}
                IN  IF ok = {} THEN PathFail(jj)
                    ELSE LET r == IF TypeTag(chunk) = "greedy"
                                  THEN CHOOSE m \in ok : \A n \in ok : n <= m
                                  ELSE CHOOSE m \in ok : \A n \in ok : n >= m
                         IN  PathTake(chunks, xs, ci, xi, r, jj)

PathApply(p, x, jj) ==
  IF p.fn = "any" THEN [ok |-> TRUE, j |-> jj]
  ELSE IF p.fn = "is" THEN [ok |-> StrictEq(x, p.object), j |-> jj]
  ELSE IF p.fn \in {"number", "string", "boolean"} THEN [ok |-> TypeOf(x) = p.fn, j |-> jj]
  ELSE IF p.fn = "or" THEN PathOr(p.args, 1, x, jj)
  ELSE IF p.fn = "name"
       THEN LET q == PathApply(p.p, x, jj)
            IN  IF q.ok THEN [ok |-> TRUE, j |-> Bind(q.j, p.binding, x)] ELSE PathFail(jj)
  ELSE IF p.fn = "repeat"
       THEN IF /\ IsArray(x)
               /\ (p.min = False \/ Len(x.arr) >= p.min.num)
               /\ (p.max = False \/ Len(x.arr) <= p.max.num)
            THEN PathAll([i \in 1..Len(x.arr) |-> p.p], x.arr, 0, 1, jj)
            ELSE PathFail(jj)
  ELSE IF p.fn = "matchable" THEN PathApply(p.p, x, jj)
  ELSE IF p.fn = "lst"
       THEN IF IsArray(x) THEN PathSub(p.chunks, x.arr, 0, 0, jj) ELSE PathFail(jj)
  ELSE PathFail(jj)

IsWellFormedCall == raw \in WellFormedPatterns /\ res # "none"

\* C4: after a successful match the context contains a label only if a
\* Named wrapper with that label matched on the successful path.
C4_OnlyPathLabels ==
  (IsWellFormedCall /\ res = "j") => DOMAIN j \subseteq DOMAIN PathApply(pat, cand, EmptyJ).j

\* C5: after a successful match every label bound on the successful path
\* has the value written last on that path.
C5_PathValues ==
  (IsWellFormedCall /\ res = "j") =>
    LET path == PathApply(pat, cand, EmptyJ).j
    IN  \A l \in DOMAIN path : l \in DOMAIN j /\ j[l] = path[l]

RECURSIVE Strip(_)

\* the pattern with every name(label, inner) replaced by inner
Strip(p) ==
  IF ~IsFunction(p) THEN p
  ELSE IF p.fn = "name" THEN Strip(p.p)
  ELSE IF p.fn = "or" THEN or([i \in 1..Len(p.args) |-> Strip(p.args[i])])
  ELSE IF p.fn = "repeat" THEN repeat(Strip(p.p), p.min, p.max)
  ELSE IF p.fn = "matchable" THEN [p EXCEPT !.p = Strip(@)]
  ELSE IF p.fn = "lst" THEN lst([i \in 1..Len(p.ps) |-> Strip(p.ps[i])])
  ELSE p

\* C6: naming is transparent: a pattern matches iff the pattern with every
\* name(label, inner) replaced by inner matches, also when inner is greedy
\* or lazy.
C6_NamingTransparent ==
  IsWellFormedCall => (Truthy(res) <=> Accepts(Strip(pat), cand))

\* a successful sequence match with a named repetition chunk that took elements
C6_Witness ==
  /\ IsSeqCall
  /\ res = "j"
  /\ Strip(pat) # pat
  /\ \E ci \in 0..(Len(pat.chunks) - 1) :
       /\ "binding" \in DOMAIN pat.chunks[ci + 1]
       /\ IsRepeatChunk(pat.chunks[ci + 1])
       /\ cuts[ci + 1] > 0

\* repeat(p, min, max) as the claim states it, from the constructor's arguments
RepeatAccepts(p, b, x) ==
  /\ IsArray(x)
  /\ (b[1] # U => Len(x.arr) >= b[1].num)
  /\ (b[2] # U => Len(x.arr) <= b[2].num)
  /\ \A i \in 1..Len(x.arr) : Accepts(match(IF p = U THEN any ELSE p), x.arr[i])

XX(n) == Arr([i \in 1..n |-> Str("x")])

\* C7: repeat(p, min, max) succeeds iff the candidate is an array whose
\* length is within min..max (unrestricted when both are omitted) and whose
\* elements are all accepted by p; greedy and lazy applied directly give the
\* same result as repeat.
C7_RepeatSemantics ==
  res # "none" =>
    /\ \A pb \in RepeatInner \X BoundPairs :
         LET p == pb[1]
             b == pb[2]
             q == Call(repeat(p, b[1], b[2]), cand)
         IN  /\ raw = repeat(p, b[1], b[2]) =>
                  /\ res \in {"j", "false"}
                  /\ (res = "j") <=> RepeatAccepts(p, b, cand)
             /\ raw \in {greedy(p, b[1], b[2]), lazy(p, b[1], b[2])} =>
                  /\ (res = "j") <=> RepeatAccepts(p, b, cand)
                  /\ res = q.r /\ j = q.st.j
    /\ (raw = repeat(Str("x"), Num(1), Num(2)) /\ cand \in {XX(1), XX(2)}) => res = "j"
    /\ (raw = repeat(Str("x"), Num(1), Num(2)) /\ cand \in {XX(0), XX(3)}) => res = "false"
    /\ (raw = repeat(U, U, U) /\ IsArray(cand)) => res = "j"

\* a bounded greedy applied directly to an array at its upper bound
C7_Witness ==
  /\ raw = greedy(Str("x"), Num(1), Num(2))
  /\ cand = XX(2)
  /\ res = "j"

\* C8: a repetition built with exactly one of min and max is signalled as
\* a usage error: applying it never returns false or a binding context.
C8_MalformedSignalled ==
  (raw \in MalformedPatterns /\ res # "none") => res = "throw"

\* the 0-based indices of the alternatives that or called, in call order
OrCalls ==
  LET ev == SelectSeq(log, LAMBDA e : e.ev = "or")
  IN  [i \in 1..Len(ev) |-> ev[i].a]

\* C9: or calls its alternatives left to right on the same candidate, stops
\* at the first that succeeds, fails iff all fail, and the result carries the
\* bindings of the first matching alternative and none of a later one.
C9_OrFirstMatch ==
  (raw \in OrPatterns /\ res # "none") =>
    LET args == pat.args
        M == {i \in 1..Len(args) : Accepts(args[i], cand)}
        k == IF M = {} THEN Len(args) ELSE CHOOSE m \in M : \A n \in M : m <= n
    IN  /\ res \in {"j", "false"}
        /\ (res = "false") <=> (M = {})
        /\ OrCalls = [i \in 1..k |-> i - 1]
        /\ M # {} =>
             LET jk == Call(args[k], cand).st.j
             IN  /\ \A l \in DOMAIN jk : l \in DOMAIN j /\ j[l] = jk[l]
                 /\ \A l \in DOMAIN j : \E i \in 1..k : l \in DOMAIN Call(args[i], cand).st.j
        /\ (raw = or(<<name("A", Num(1)), name("B", AnyCtor)>>) /\ cand = Num(1)) =>
             j = [l \in {"A"} |-> Num(1)]

\* two alternatives would match and bind different labels; the first wins
C9_Witness ==
  /\ raw = or(<<name("A", Num(1)), name("B", AnyCtor)>>)
  /\ cand = Num(1)
  /\ res = "j"
  /\ OrCalls = <<0>>

\* C10: every top-level call starts from an empty context and the compiled
\* pattern is never modified: the result of each call of a compiled pattern
\* is the result of that call on a newly compiled copy, whatever was called
\* before.
C10_FreshContext ==
  res # "none" =>
    LET q == Apply(match(raw), cand, [j |-> EmptyJ, log |-> <<>>, cuts |-> <<>>])
    IN  /\ pat = match(raw)
        /\ res = q.r
        /\ j = q.st.j

\* a later successful call without a label that an earlier call had bound
C10_Witness ==
  /\ ncalls >= 2
  /\ res = "j"
  /\ \E l \in seen : l \notin DOMAIN j

-----------------------------------------------------------------------------
(* Compilation                                                             *)

\* C11: compilation is idempotent: match(match(p)) is match(p); the wildcard
\* marker any compiles to the wildcard any(), an array to the sequence of
\* its compiled elements, and any other scalar to a literal pattern.
C11_CompileIdempotent ==
  pat # NotCompiled =>
    /\ match(pat) = pat
    /\ IsFunction(raw) /\ raw # AnyCtor => pat = raw
    /\ raw = AnyCtor => pat = any /\ (res # "none" => res = "j" /\ j = EmptyJ)
    /\ IsArray(raw) =>
         /\ pat = lst(raw.arr)
         /\ Len(pat.ps) = Len(raw.arr)
         /\ \A i \in 1..Len(raw.arr) :
              /\ pat.ps[i] = match(raw.arr[i])
              /\ match(pat.ps[i]) = pat.ps[i]
              /\ ~IsFunction(raw.arr[i]) /\ ~IsArray(raw.arr[i]) => pat.ps[i] = is(raw.arr[i])
    /\ ~IsFunction(raw) /\ ~IsArray(raw) =>
         /\ pat = is(raw)
         /\ res # "none" => (res = "j" <=> StrictEq(cand, raw))

\* a compiled array pattern with a nested array and a literal among its elements
C11_Witness ==
  /\ pat # NotCompiled
  /\ IsArray(raw)
  /\ \E i \in 1..Len(raw.arr) : IsArray(raw.arr[i])
  /\ \E i \in 1..Len(raw.arr) : "num" \in DOMAIN raw.arr[i]
  /\ res = "j"

-----------------------------------------------------------------------------
(* Sequences                                                               *)

BracketA == Arr(<<Num(1), name("A", greedy(U, U, U)), Num(2)>>)

PrefixA == Arr(<<Num(1), name("A", greedy(U, U, U))>>)

Postfix1 == Arr(<<greedy(U, U, U), Num(1)>>)

OnlyA(a) == [l \in {"A"} |-> Arr(a)]

\* C12: [1, name('A', greedy()), 2] matches an array iff it has at least two
\* elements, starts with 1 and ends with 2, and A is then the elements
\* strictly between; [1, name('A', greedy())] matches iff the array starts
\* with 1, and A is then the rest; [greedy(), 1] matches iff the last
\* element is 1.
C12_PrefixBracketCapture ==
  (res # "none" /\ IsArray(cand)) =>
    LET a == cand.arr
        n == Len(a)
    IN  /\ raw = BracketA =>
             /\ res \in {"j", "false"}
             /\ (res = "j") <=> (n >= 2 /\ a[1] = Num(1) /\ a[n] = Num(2))
             /\ res = "j" => j = OnlyA(SubSeq(a, 2, n - 1))
        /\ raw = PrefixA =>
             /\ res \in {"j", "false"}
             /\ (res = "j") <=> (n >= 1 /\ a[1] = Num(1))
             /\ res = "j" => j = OnlyA(SubSeq(a, 2, n))
        /\ raw = Postfix1 =>
             /\ res \in {"j", "false"}
             /\ (res = "j") <=> (n >= 1 /\ a[n] = Num(1))
             /\ res = "j" => j = EmptyJ

\* the bracketing pattern captured a non-empty middle that itself ends like
\* the closing literal
C12_Witness ==
  /\ raw = BracketA
  /\ res = "j"
  /\ Len(cand.arr) >= 4
  /\ cand.arr[Len(cand.arr) - 1] = Num(2)

\* an array pattern none of whose elements is a repetition
NoRepetition(p) ==
  IsArray(p) /\ \A i \in 1..Len(p.arr) : ~IsRepeatChunk(match(p.arr[i]))

\* C13: a sequence without a repetition element accepts a candidate iff the
\* candidate is an array of exactly as many elements as the sequence has
\* patterns and each element is accepted by the pattern at its position;
\* the empty sequence accepts exactly the empty array.
C13_FixedSequence ==
  (NoRepetition(raw) /\ res # "none") =>
    /\ res \in {"j", "false"}
    /\ (res = "j") <=>
         /\ IsArray(cand)
         /\ Len(cand.arr) = Len(raw.arr)
         /\ \A i \in 1..Len(raw.arr) : Accepts(match(raw.arr[i]), cand.arr[i])
    /\ raw = Arr(<<>>) => ((res = "j") <=> (cand = Arr(<<>>)))

\* a sequence of two different patterns accepted an array of two elements
C13_Witness ==
  /\ NoRepetition(raw)
  /\ Len(raw.arr) = 2
  /\ raw.arr[1] # raw.arr[2]
  /\ res = "j"

OnlyGreedy == Arr(<<greedy(U, U, U)>>)

\* C14: [greedy()] matches every array, whatever its length and content,
\* and no candidate that is not an array.
C14_GreedyAlone ==
  (raw = OnlyGreedy /\ res # "none") =>
    /\ res \in {"j", "false"}
    /\ (res = "j") <=> IsArray(cand)
    /\ res = "j" => j = EmptyJ

\* [greedy()] matched an array that contains an array
C14_Witness ==
  /\ raw = OnlyGreedy
  /\ res = "j"
  /\ \E i \in 1..Len(cand.arr) : IsArray(cand.arr[i])

Nested1 == Arr(<<Num(1), Arr(<<Num(2), name("A", greedy(U, U, U))>>)>>)

Nested2 == Arr(<<Num(1), Arr(<<Num(2), name("A", lazy(U, U, U)), greedy(Num(3), U, U)>>)>>)

NestedInRepeat == Arr(<<greedy(Arr(<<Num(1), name("A", U)>>), U, U)>>)

NestedDeep == Arr(<<Arr(<<Arr(<<name("A", U)>>), name("B", lazy(U, U, U))>>)>>)

\* C15: nested sequences share the one flat context of the enclosing match:
\* every label bound on the successful path, at whatever depth and also
\* inside a sequence that is the inner pattern of a repetition, is a key of
\* the result of the outer match; [1, [2, name('A', greedy())]] on
\* [1, [2, 3]] gives {A: [3]} and [1, [2, name('A', lazy()), greedy(3)]]
\* gives {A: []}.
C15_NestedShareContext ==
  /\ (IsWellFormedCall /\ res = "j") =>
       DOMAIN PathApply(pat, cand, EmptyJ).j \subseteq DOMAIN j
  /\ (raw = Nested1 /\ cand = Arr(<<Num(1), Arr(<<Num(2), Num(3)>>)>>)) =>
       (res = "j" /\ j = OnlyA(<<Num(3)>>))
  /\ (raw = Nested2 /\ cand = Arr(<<Num(1), Arr(<<Num(2), Num(3)>>)>>)) =>
       (res = "j" /\ j = OnlyA(<<>>))
  /\ (raw = NestedInRepeat /\ cand = Arr(<<Arr(<<Num(1), Num(2)>>), Arr(<<Num(1), Num(1)>>)>>)) =>
       (res = "j" /\ j = [l \in {"A"} |-> Num(1)])
  /\ (raw = NestedDeep /\ cand = Arr(<<Arr(<<Arr(<<Num(2)>>), Num(1)>>)>>)) =>
       (res = "j" /\ j = [l \in {"A", "B"} |-> IF l = "A" THEN Num(2) ELSE Arr(<<Num(1)>>)])

\* a label bound two sequences deep next to one bound one sequence deep
C15_Witness ==
  /\ raw = NestedDeep
  /\ res = "j"
  /\ DOMAIN j = {"A", "B"}

-----------------------------------------------------------------------------
(* The documented date pattern                                             *)

\* four numbers, '-', two numbers
IsDateArray(x) ==
  /\ IsArray(x)
  /\ Len(x.arr) = 7
  /\ \A i \in {1, 2, 3, 4, 6, 7} : TypeOf(x.arr[i]) = "number"
  /\ x.arr[5] = Str("-")

\* C16: the date pattern [name('year', greedy(number, 4, 4)), '-',
\* name('month', greedy(number, 2, 2))] matches a candidate iff it is four
\* numbers, '-', two numbers, and then binds year and month to the two runs;
\* a candidate with a non-number in a run is not matched.
C16_DatePattern ==
  (raw = DatePattern /\ res # "none") =>
    /\ Truthy(res) <=> IsDateArray(cand)
    /\ IsDateArray(cand) =>
         j = [l \in {"year", "month"} |->
                IF l = "year" THEN Arr(SubSeq(cand.arr, 1, 4)) ELSE Arr(SubSeq(cand.arr, 6, 7))]

-----------------------------------------------------------------------------
(* select                                                                  *)

IsSelectCall == sel # NoSelect

\* the trace of evaluating the patterns of the first k clauses
MatchTrace(k) == [i \in 1..k |-> [ev |-> "match", i |-> 2 * (i - 1)]]

\* C17: with an even clause list select evaluates the patterns in order,
\* invokes exactly the handler paired with the first pattern that matches x,
\* on that match's context, and returns its result; no later pattern is
\* evaluated and nothing else invoked.  The fallback is invoked, on x, only
\* when no pattern matches; without a fallback the result is then false.
C17_SelectFirstMatch ==
  (IsSelectCall /\ Len(sel.clauses) % 2 = 0) =>
    LET n == Len(sel.clauses) \div 2
        M == {k \in 1..n : Accepts(sel.clauses[2 * k - 1], sel.x)}
    IN  /\ sel.r = "return"
        /\ M # {} =>
             LET k == CHOOSE m \in M : \A o \in M : m <= o
             IN  /\ sel.v = Invoke(sel.clauses[2 * k], Call(sel.clauses[2 * k - 1], sel.x).st.j)
                 /\ sel.trace = Traced(MatchTrace(k), "func", 2 * k - 1)
        /\ (M = {} /\ sel.fallback # Undefined) =>
             /\ sel.v = Invoke(sel.fallback, sel.x)
             /\ sel.trace = Traced(MatchTrace(n), "fallback", 0)
        /\ (M = {} /\ sel.fallback = Undefined) =>
             /\ sel.v = False
             /\ sel.trace = MatchTrace(n)

\* both clauses would match, with different handlers; the first handler ran
\* on a non-empty context although a fallback was given
C17_Witness ==
  /\ IsSelectCall
  /\ Len(sel.clauses) = 4
  /\ \A k \in 1..2 : Accepts(sel.clauses[2 * k - 1], sel.x)
  /\ sel.clauses[2] # sel.clauses[4]
  /\ sel.fallback # Undefined
  /\ sel.r = "return"
  /\ sel.v.by = sel.clauses[2].handler
  /\ sel.v.arg # EmptyJ

\* C18: with a clause list of odd length select throws its usage error, for
\* every candidate and with or without a fallback, before any pattern is
\* evaluated and before any handler or the fallback is invoked; the outcome
\* is not the no-match result false.
C18_SelectOddThrows ==
  (IsSelectCall /\ Len(sel.clauses) % 2 = 1) =>
    /\ sel.r = "throw"
    /\ sel.v = ClausesError
    /\ sel.v # False
    /\ sel.trace = <<>>

\* an odd clause list whose first pattern would have matched, with a fallback
C18_Witness ==
  /\ IsSelectCall
  /\ Len(sel.clauses) = 3
  /\ Accepts(sel.clauses[1], sel.x)
  /\ sel.fallback # Undefined
  /\ sel.r = "throw"

-----------------------------------------------------------------------------
(* Failure and the search's cursor                                         *)

\* C19: no match is a value, not an error: a pattern built from literals,
\* wildcards, type checks, or, name, sequences and repetitions with both
\* bounds or neither returns false or the context for every candidate,
\* arrays and non-arrays alike, and never throws.
C19_NoMatchIsValue ==
  IsWellFormedCall => res \in {"j", "false"}

\* a repetition inside a sequence was given an element that is not an array
\* and the match just failed
C19_Witness ==
  /\ raw = NestedInRepeat
  /\ IsArray(cand)
  /\ \E i \in 1..Len(cand.arr) : ~IsArray(cand.arr[i])
  /\ res = "false"

\* C20: in every state (ci, xi) the search of a sequence reaches,
\* 0 <= ci <= number of chunks and 0 <= xi <= length of the candidate array:
\* a repetition chunk at xi tries only lengths up to the number of elements
\* remaining, so the cursor never moves past the end of the array.
C20_CursorInRange ==
  IsWellFormedCall =>
    \A i \in 1..Len(log) :
      log[i].ev = "submatch" =>
        /\ 0 <= log[i].a /\ log[i].a <= log[i].n
        /\ 0 <= log[i].b /\ log[i].b <= log[i].len

-----------------------------------------------------------------------------
(* Termination                                                             *)

RECURSIVE DepthBound(_)

RECURSIVE MaxDepthOf(_, _)

\* the greatest DepthBound among ps[1..i]
MaxDepthOf(ps, i) ==
  IF i = 0 THEN 0
  ELSE LET d == DepthBound(ps[i])
           m == MaxDepthOf(ps, i - 1)
       IN  IF d > m THEN d ELSE m

\* a bound on the number of nested submatch calls that depends on the
\* pattern only: a sequence contributes its number of chunks plus one
DepthBound(p) ==
  IF ~IsFunction(p) THEN 0
  ELSE IF p.fn = "lst" THEN Len(p.chunks) + 1 + MaxDepthOf(p.ps, Len(p.ps))
  ELSE IF p.fn = "or" THEN MaxDepthOf(p.args, Len(p.args))
  ELSE IF p.fn \in {"name", "repeat", "matchable"} THEN DepthBound(p.p)
  ELSE 0

\* one entry of the log applied to the calls that have not returned yet.
\* A call with ci = 0 starts a search at xi = 0; a call with ci > 0 is made
\* by the call for ci - 1 of the same search, which makes at most
\* x.length + 1 such calls; no call has ci beyond the number of chunks; the
\* stack is never deeper than bound.
ScanStep(e, s, bound) ==
  IF ~s.ok THEN s
  ELSE LET d == Len(s.stack)
       IN  IF e.ev = "submatch"
           THEN IF /\ d + 1 <= bound
                   /\ e.a <= e.n
                   /\ IF e.a = 0 THEN e.b = 0
                      ELSE /\ d > 0
                           /\ s.stack[d].a = e.a - 1
                           /\ s.stack[d].n = e.n
                           /\ s.stack[d].len = e.len
                           /\ s.stack[d].kids <= e.len
                THEN [ok |-> TRUE,
                      stack |-> (IF e.a = 0 THEN s.stack ELSE [s.stack EXCEPT ![d].kids = @ + 1])
                                  \o <<[a |-> e.a, n |-> e.n, len |-> e.len, kids |-> 0]>>]
                ELSE [ok |-> FALSE, stack |-> <<>>]
           ELSE IF e.ev = "return"
           THEN IF d > 0 /\ s.stack[d].a = e.a
                THEN [ok |-> TRUE, stack |-> SubSeq(s.stack, 1, d - 1)]
                ELSE [ok |-> FALSE, stack |-> <<>>]
           ELSE s

RECURSIVE ScanRange(_, _, _, _)

\* the entries lo..hi of the log applied in order, by halves
ScanRange(lo, hi, s, bound) ==
  IF lo > hi THEN s
  ELSE IF lo = hi THEN ScanStep(log[lo], s, bound)
  ELSE LET mid == (lo + hi) \div 2
           left == ScanRange(lo, mid, s, bound)
       IN  IF left.ok THEN ScanRange(mid + 1, hi, left, bound) ELSE left

\* the log is the history of a search that ran to its end
SearchScan(bound) ==
  LET s == ScanRange(1, Len(log), [ok |-> TRUE, stack |-> <<>>], bound)
  IN  s.ok /\ s.stack = <<>>

\* C21: every match call ends, in success or in exhaustion of the search:
\* each recursive submatch call is for the next chunk, so within one
\* sequence at most number-of-chunks-plus-one calls are nested, whatever the
\* length of the array, and each repetition loop tries a bounded number of
\* lengths.
C21_Terminates ==
  IsWellFormedCall =>
    /\ res \in {"j", "false"}
    /\ SearchScan(DepthBound(pat))

\* a search over an array longer than the pattern has chunks was exhausted
\* after backtracking
C21_Witness ==
  /\ IsSeqCall
  /\ res = "false"
  /\ Len(cand.arr) > Len(pat.chunks) + 1
  /\ SubmatchEntries > 2 * Len(cand.arr)

-----------------------------------------------------------------------------
(* Chunking                                                                *)

RECURSIVE Flatten(_, _)

\* chunks[1..i] concatenated: a fixed chunk gives its elements, a repetition
\* chunk itself
Flatten(chunks, i) ==
  IF i = 0 THEN <<>>
  ELSE Flatten(chunks, i - 1) \o (IF IsArray(chunks[i]) THEN chunks[i].arr ELSE <<chunks[i]>>)

\* the chunks of one compiled sequence
ChunksOf(p) ==
  /\ Flatten(p.chunks, Len(p.chunks)) = p.ps
  /\ \A i \in 1..Len(p.ps) :
       IsRepeatChunk(p.ps[i]) => \E c \in 1..Len(p.chunks) : p.chunks[c] = p.ps[i]
  /\ \A c \in 1..Len(p.chunks) :
       IF IsArray(p.chunks[c])
       THEN /\ Len(p.chunks[c].arr) > 0
            /\ \A k \in 1..Len(p.chunks[c].arr) : ~IsRepeatChunk(p.chunks[c].arr[k])
            /\ c > 1 => ~IsArray(p.chunks[c - 1])
       ELSE IsRepeatChunk(p.chunks[c])

RECURSIVE AllChunked(_)

\* ChunksOf holds of p and of every sequence inside p
AllChunked(p) ==
  IF ~IsFunction(p) THEN TRUE
  ELSE IF p.fn = "lst" THEN ChunksOf(p) /\ \A i \in 1..Len(p.ps) : AllChunked(p.ps[i])
  ELSE IF p.fn = "or" THEN \A i \in 1..Len(p.args) : AllChunked(p.args[i])
  ELSE IF p.fn \in {"name", "repeat", "matchable"} THEN AllChunked(p.p)
  ELSE TRUE

ChunkifyExample ==
  <<Num(1), Num(2), Num(3), Str("a"), Num(5), Num(6), Str("x"), Num(8)>>

\* C22: the chunks of a sequence, concatenated in order, are its element
\* list; every greedy or lazy element, named or not, is a chunk of its own;
\* every fixed chunk is non-empty and has no greedy or lazy element; no two
\* fixed chunks are adjacent; chunkify([1,2,3,'a',5,6,'x',8], isString) is
\* [[1,2,3],'a',[5,6],'x',[8]].
C22_Chunking ==
  /\ pat # NotCompiled => AllChunked(pat)
  /\ chunkify(ChunkifyExample,
              [i \in 1..Len(ChunkifyExample) |-> TypeOf(ChunkifyExample[i]) = "string"])
       = << Arr(<<Num(1), Num(2), Num(3)>>), Str("a"), Arr(<<Num(5), Num(6)>>), Str("x"),
            Arr(<<Num(8)>>) >>

\* a compiled sequence of three chunks or more with a fixed chunk of two
\* elements between repetition chunks, one of them named
C22_Witness ==
  /\ pat # NotCompiled
  /\ IsArray(raw)
  /\ \E c \in 1..Len(pat.chunks) : IsArray(pat.chunks[c]) /\ Len(pat.chunks[c].arr) = 2
  /\ \E c \in 1..Len(pat.chunks) : "binding" \in DOMAIN pat.chunks[c]
  /\ Len(pat.chunks) >= 3
  /\ ~IsArray(pat.chunks[1])

-----------------------------------------------------------------------------
(* Who writes the context                                                  *)

RECURSIVE Labels(_)

\* the labels of the name wrappers in a compiled pattern
Labels(p) ==
  IF ~IsFunction(p) THEN {}
  ELSE IF p.fn = "name" THEN {p.binding} \cup Labels(p.p)
  ELSE IF p.fn = "or" THEN UNION {Labels(p.args[i]) : i \in 1..Len(p.args)}
  ELSE IF p.fn \in {"repeat", "matchable"} THEN Labels(p.p)
  ELSE IF p.fn = "lst" THEN UNION {Labels(p.ps[i]) : i \in 1..Len(p.ps)}
  ELSE {}

RECURSIVE SubValues(_)

\* a value and everything inside it, and the slices of its arrays
SubValues(v) ==
  IF IsArray(v)
  THEN {Arr(SubSeq(v.arr, a, b)) : a \in 1..(Len(v.arr) + 1), b \in 0..Len(v.arr)}
         \cup UNION {SubValues(v.arr[i]) : i \in 1..Len(v.arr)}
  ELSE {v}

OrThenNumbers == Arr(<<or(<<Num(1), Num(2)>>), greedy(number, U, U)>>)

\* C23: only name wrappers write to the context: after a call, successful
\* or not, every key is the label of a name wrapper of the pattern and its
\* value is a part of the candidate; a pattern without name leaves the
\* context empty, so its successful match returns {}; name(label) without
\* inner pattern accepts every value v and returns {label: v}.
C23_OnlyNameWrites ==
  IsWellFormedCall =>
    /\ DOMAIN j \subseteq Labels(pat)
    /\ \A l \in DOMAIN j : j[l] \in SubValues(cand)
    /\ Labels(pat) = {} => j = EmptyJ
    /\ raw = name("A", U) => (res = "j" /\ j = [l \in {"A"} |-> cand])

\* or, a type check, a repetition and a sequence matched an array of three
\* elements or more and the context is empty
C23_Witness ==
  /\ raw = OrThenNumbers
  /\ res = "j"
  /\ Len(cand.arr) >= 3
  /\ j = EmptyJ

====
